---- MODULE Spec2Model ----
(***************************************************************************)
(* Model of the "Vibe" prompt-to-app workflow: the tRPC create mutations   *)
(* (messages.create, projects.create), the credit ledger they consult, the *)
(* code-agent/run event and the durable code-agent handler                 *)
(* (src/inngest/functions.ts) with its agent network, tools and            *)
(* save-result step.                                                       *)
(***************************************************************************)
EXTENDS Integers, Sequences, FiniteSets, TLC

VARIABLES
    projects,   \* Project rows: id -> [userId, createdAt, updatedAt]
    messages,   \* Message rows in insertion order (createdAt ascending)
    usage,      \* Usage rows of the rate limiter: user -> consumed points
    calls,      \* in-flight mutation calls: call number -> frame
    jobs,       \* code-agent runs, one per sent event: call number -> run state
    sandboxes,  \* sandboxes created so far: sequence of [job, fs]
    clock,      \* database time (one tick per write)
    runsLeft,   \* events the step runner may still pick up
    requests    \* which requests clients make in this behaviour (a menu name)

vars == <<projects, messages, usage, calls, jobs, sandboxes, clock, runsLeft,
          requests>>

----------------------------------------------------------------------------
(* Bounds of the model *)

\* number of mutation calls made in one behaviour
MaxCalls == 2

\* events the step runner picks up in one behaviour (the others stay queued)
MaxRuns == 1

\* attempts the step runner gives one step before the run is marked failed
MaxAttempts == 2

(* Program constants *)

\* z.string().min(1)
MinValueLen == 1

\* z.string().max(10000)
MaxValueLen == 10000

\* createNetwork({ maxIter: 15 })
maxIter == 15

\* FREE_POINTS of src/lib/usage.ts
FREE_POINTS == 5

\* GENERATION_COST of src/lib/usage.ts
GENERATION_COST == 1

----------------------------------------------------------------------------
(* Values *)

Undefined == "undefined"

\* ctx.auth.userId of a caller that is not signed in
NoUser == "null"

Users == {"u1", "u2"}

Callers == Users \cup {NoUser}

\* the project that exists before the first call, owned by u1
SeedProject == "p1"

\* projectId inputs: the existing project, an unknown id, the empty string
ProjectIdInputs == {SeedProject, "pX", ""}

\* input strings, named by what they are; ValueLen gives their length
Values == {"", "x", "x*10000", "x*10001"}

ValueLen(v) ==
    CASE v = "" -> 0
      [] v = "x" -> 1
      [] v = "x*10000" -> MaxValueLen
      [] v = "x*10001" -> MaxValueLen + 1
      [] OTHER -> 2

CallIds == 1..MaxCalls

Procs == {"messages.create", "projects.create"}

EmptyFiles == [p \in {} |-> ""]

Request(proc, caller, value, projectId) ==
    [proc |-> proc, caller |-> caller, value |-> value, projectId |-> projectId]

\* every request a client can make (projects.create takes no projectId)
AllRequests ==
    {Request("messages.create", u, v, p) :
        u \in Callers, v \in Values, p \in ProjectIdInputs}
    \cup {Request("projects.create", u, v, "") : u \in Callers, v \in Values}

\* the requests of the workflow runs: a follow-up message of the owner and a
\* first prompt from the home page
WorkflowRequests ==
    { Request("messages.create", "u1", "x", SeedProject),
      Request("projects.create", NoUser, "x", "") }

\* the requests of a menu
Menu(name) == IF name = "all" THEN AllRequests ELSE WorkflowRequests

----------------------------------------------------------------------------
(* Rows and frames *)

\* a Message row; byCall / byJob record which call or run wrote it (0: none)
MessageRow(projectId, content, role, type, fragment, at, byCall, byJob) ==
    [projectId |-> projectId, content |-> content, role |-> role,
     type |-> type, fragment |-> fragment, createdAt |-> at,
     updatedAt |-> at, byCall |-> byCall, byJob |-> byJob]

ProjectRow(userId, at) == [userId |-> userId, createdAt |-> at, updatedAt |-> at]

NoError == [code |-> "OK", message |-> ""]

TRPCError(code, message) == [code |-> code, message |-> message]

\* the frame of a call that has not been made yet
IdleCall ==
    [pc |-> "idle", proc |-> "", caller |-> NoUser, value |-> "",
     projectId |-> "", error |-> NoError, consumed |-> FALSE,
     created |-> 0, createdProject |-> "", sent |-> FALSE]

\* the frame of a call whose response was delivered
FinishedCall == [IdleCall EXCEPT !.pc = "finished"]

\* one tool call of a response: the tool's name and its parameters
ToolCall(tool, files, paths, command) ==
    [tool |-> tool, files |-> files, paths |-> paths, command |-> command]

NoCall == ToolCall("", <<>>, <<>>, "")

\* what the step of a tool call produced: the text or the serialized
\* contents its callback returned and whether the tool's handler hands that
\* back to the agent; thrown, stdout and stderr record the exception the
\* callback caught ("": none) and the buffers filled until then
ToolOutput(call, thrown, text, contents, returned, stdout, stderr) ==
    [call |-> call, thrown |-> thrown, text |-> text, contents |-> contents,
     returned |-> returned, stdout |-> stdout, stderr |-> stderr]

NoOutput == ToolOutput(NoCall, "", <<>>, <<>>, FALSE, <<>>, <<>>)

\* the value the handler has returned: none before its return statement
NoReturn == [url |-> "", title |-> "", files |-> EmptyFiles, summary |-> <<>>]

\* the run that has not been triggered; markerSeen and repeated record
\* whether a response carried the marker and whether the last tool step
\* applied the same successful createOrUpdateFiles call as the one before;
\* written records the paths the run's createOrUpdateFiles calls wrote
NoJob ==
    [pc |-> "none", data |-> [value |-> ""], sandboxId |-> 0,
     previousMessages |-> <<>>, summary |-> <<>>, files |-> EmptyFiles,
     counter |-> 0, pending |-> <<>>, fragmentTitleOutput |-> <<>>,
     responseOutput |-> <<>>, isError |-> FALSE, sandboxURL |-> "",
     attempt |-> 0, markerSeen |-> FALSE, toolOutput |-> NoOutput,
     repeated |-> FALSE, written |-> {}, returned |-> NoReturn]

\* event.data.<key>: undefined when the payload has no such key
EventField(data, key) == IF key \in DOMAIN data THEN data[key] ELSE Undefined

----------------------------------------------------------------------------
(* tRPC middleware: isAuthed (protectedProcedure) and the zod input parsers *)

\* protectedProcedure = t.procedure.use(isAuthed)
IsProtected(proc) == proc = "messages.create"

\* isAuthed passes iff ctx.auth.userId is set
IsAuthed(caller) == caller # NoUser

\* a faulty variant: the schema has no upper bound
ValueErrorNoMax(proc, v) ==
    IF ValueLen(v) < MinValueLen
    THEN IF proc = "messages.create" THEN "Message is required" ELSE "Value is required"
    ELSE ""

\* value: z.string().min(1).max(10000)
ValueError(proc, v) ==
    IF ValueLen(v) < MinValueLen
    THEN IF proc = "messages.create" THEN "Message is required" ELSE "Value is required"
    ELSE IF ValueLen(v) > MaxValueLen
    THEN IF proc = "messages.create" THEN "Message is too long" ELSE "Value is too long"
    ELSE ""

\* projectId: z.string().min(1), only in the messages.create schema
ProjectIdError(proc, p) ==
    IF proc = "messages.create" /\ p = "" THEN "Project ID is required" ELSE ""

\* the error the middleware chain ends the request with, NoError when it
\* reaches the resolver: isAuthed runs before the input parser
MiddlewareError(proc, caller, v, p) ==
    IF IsProtected(proc) /\ ~IsAuthed(caller)
    THEN TRPCError("UNAUTHORIZED", "Not authenticated")
    ELSE IF ValueError(proc, v) # ""
    THEN TRPCError("BAD_REQUEST", ValueError(proc, v))
    ELSE IF ProjectIdError(proc, p) # ""
    THEN TRPCError("BAD_REQUEST", ProjectIdError(proc, p))
    ELSE NoError

\* a faulty variant: the credit is consumed before the project is looked up
ResolverStepsConsumeFirst(proc) ==
    IF proc = "messages.create"
    THEN <<"consumeCredits", "findProject", "createMessage", "send">>
    ELSE <<"createProject", "send">>

\* a faulty variant: the event is sent before the message is created
ResolverStepsSendFirst(proc) ==
    IF proc = "messages.create"
    THEN <<"findProject", "consumeCredits", "send", "createMessage">>
    ELSE <<"send", "createProject">>

\* a faulty variant: the resolver returns without sending the event
ResolverStepsNoSend(proc) ==
    IF proc = "messages.create"
    THEN <<"findProject", "consumeCredits", "createMessage">>
    ELSE <<"createProject">>

\* a faulty variant: the credit is consumed after the event was sent
ResolverStepsConsumeLast(proc) ==
    IF proc = "messages.create"
    THEN <<"findProject", "createMessage", "send", "consumeCredits">>
    ELSE <<"createProject", "send">>

\* the awaited calls of a resolver, in program order
ResolverSteps(proc) ==
    IF proc = "messages.create"
    THEN <<"findProject", "consumeCredits", "createMessage", "send">>
    ELSE <<"createProject", "send">>

\* the statement after pc in the resolver; the resolver returns after the last
StepAfter(proc, pc) ==
    LET steps == ResolverSteps(proc)
        i == CHOOSE k \in 1..Len(steps) : steps[k] = pc
    IN IF i = Len(steps) THEN "responded" ELSE steps[i + 1]

\* a request arrives: the middleware chain either rejects it or hands it to
\* the resolver
Invoke(c) ==
    /\ calls[c].pc = "idle"
    /\ \A d \in CallIds : d < c => calls[d].pc # "idle"
    /\ \E r \in Menu(requests) :
          LET err == MiddlewareError(r.proc, r.caller, r.value, r.projectId) IN
          calls' = [calls EXCEPT ![c] =
             [IdleCall EXCEPT
                 !.proc = r.proc, !.caller = r.caller, !.value = r.value,
                 !.projectId = r.projectId, !.error = err,
                 !.pc = IF err # NoError THEN "responded"
                        ELSE ResolverSteps(r.proc)[1]]]
    /\ UNCHANGED <<projects, messages, usage, jobs, sandboxes, clock, runsLeft, requests>>

----------------------------------------------------------------------------
(* Credit ledger: consumeCredits of src/lib/usage.ts *)

\* points of the caller's plan (free tier)
Points(user) == FREE_POINTS

\* usageTracker.consume(userId, GENERATION_COST): the consumed points after
\* the upsert
Consumed(user) == usage[user] + GENERATION_COST

\* the limiter rejects (with a RateLimiterRes, not an Error) once the consumed
\* points exceed the plan's points
LimitExceeded(user) == Consumed(user) > Points(user)

\* a faulty variant: the two branches of the catch block are swapped
CreditErrorSwapped(isErrorInstance) ==
    IF ~isErrorInstance
    THEN TRPCError("BAD_REQUEST", "Something went wrong")
    ELSE TRPCError("TOO_MANY_REQUESTS",
                   "You have reached the limit. You have run out of credits")

\* the TRPCError the catch block of the mutation maps a consumeCredits
\* failure to
CreditError(isErrorInstance) ==
    IF isErrorInstance
    THEN TRPCError("BAD_REQUEST", "Something went wrong")
    ELSE TRPCError("TOO_MANY_REQUESTS",
                   "You have reached the limit. You have run out of credits")

----------------------------------------------------------------------------
(* messages.create resolver *)

\* prisma.project.findUnique({ where: { id, userId } })
ExistingProject(id, userId) ==
    id \in DOMAIN projects /\ projects[id].userId = userId

FindProject(c) ==
    /\ calls[c].pc = "findProject"
    /\ calls' = [calls EXCEPT ![c] =
          IF ExistingProject(calls[c].projectId, calls[c].caller)
          THEN [@ EXCEPT !.pc = StepAfter(calls[c].proc, "findProject")]
          ELSE [@ EXCEPT !.pc = "responded",
                         !.error = TRPCError("NOT_FOUND", "Project not found")]]
    /\ UNCHANGED <<projects, messages, usage, jobs, sandboxes, clock, runsLeft, requests>>

\* await consumeCredits() succeeds or the limiter rejects
ConsumeCredits(c) ==
    /\ calls[c].pc = "consumeCredits"
    /\ LET u == calls[c].caller IN
       /\ usage' = [usage EXCEPT ![u] = Consumed(u)]
       /\ calls' = [calls EXCEPT ![c] =
             IF LimitExceeded(u)
             THEN [@ EXCEPT !.pc = "responded", !.error = CreditError(FALSE)]
             ELSE [@ EXCEPT !.pc = StepAfter(calls[c].proc, "consumeCredits"),
                            !.consumed = TRUE]]
    /\ UNCHANGED <<projects, messages, jobs, sandboxes, clock, runsLeft, requests>>

\* await consumeCredits() throws an Error (the usage store is unreachable)
ConsumeCreditsThrows(c) ==
    /\ calls[c].pc = "consumeCredits"
    /\ calls' = [calls EXCEPT ![c] =
          [@ EXCEPT !.pc = "responded", !.error = CreditError(TRUE)]]
    /\ UNCHANGED <<projects, messages, usage, jobs, sandboxes, clock, runsLeft, requests>>

\* prisma.message.create({ data: { projectId, content, role: USER, type: RESULT } })
CreateMessage(c) ==
    /\ calls[c].pc = "createMessage"
    /\ messages' = Append(messages,
          MessageRow(calls[c].projectId, calls[c].value, "USER", "RESULT",
                     <<>>, clock, c, 0))
    /\ clock' = clock + 1
    /\ calls' = [calls EXCEPT ![c] =
          [@ EXCEPT !.pc = StepAfter(calls[c].proc, "createMessage"),
                    !.created = Len(messages) + 1]]
    /\ UNCHANGED <<projects, usage, jobs, sandboxes, runsLeft, requests>>

\* a write or the event send of the resolver throws: tRPC answers
\* INTERNAL_SERVER_ERROR and the statements after it do not run
ResolverThrows(c) ==
    /\ calls[c].pc \in {"createMessage", "createProject", "send"}
    /\ calls' = [calls EXCEPT ![c] =
          [@ EXCEPT !.pc = "responded",
                    !.error = TRPCError("INTERNAL_SERVER_ERROR", calls[c].pc)]]
    /\ UNCHANGED <<projects, messages, usage, jobs, sandboxes, clock, runsLeft, requests>>

\* the payload messages.create sends
MessagesEventData(c) ==
    [value |-> calls[c].value, projectId |-> calls[c].projectId]

----------------------------------------------------------------------------
(* projects.create resolver *)

\* id of the project a call creates (@default(uuid()))
NewProjectId(c) == "n" \o ToString(c)

\* prisma.project.create with the nested USER message, one write
CreateProject(c) ==
    /\ calls[c].pc = "createProject"
    /\ projects' = [id \in DOMAIN projects \cup {NewProjectId(c)} |->
          IF id = NewProjectId(c) THEN ProjectRow(Undefined, clock)
          ELSE projects[id]]
    /\ messages' = Append(messages,
          MessageRow(NewProjectId(c), calls[c].value, "USER", "RESULT",
                     <<>>, clock, c, 0))
    /\ clock' = clock + 1
    /\ calls' = [calls EXCEPT ![c] =
          [@ EXCEPT !.pc = StepAfter(calls[c].proc, "createProject"),
                    !.created = Len(messages) + 1,
                    !.createdProject = NewProjectId(c)]]
    /\ UNCHANGED <<usage, jobs, sandboxes, runsLeft, requests>>

\* the payload projects.create sends
ProjectsEventData(c) ==
    [value |-> calls[c].value, projectID |-> calls[c].createdProject]

----------------------------------------------------------------------------
(* inngest.send and the response *)

EventData(c) ==
    IF calls[c].proc = "messages.create" THEN MessagesEventData(c)
    ELSE ProjectsEventData(c)

\* await inngest.send({ name: "code-agent/run", data }); return the record
SendEvent(c) ==
    /\ calls[c].pc = "send"
    /\ jobs' = [jobs EXCEPT ![c] =
          [NoJob EXCEPT !.pc = "queued", !.data = EventData(c)]]
    /\ calls' = [calls EXCEPT ![c] =
          [@ EXCEPT !.pc = StepAfter(calls[c].proc, "send"), !.sent = TRUE]]
    /\ UNCHANGED <<projects, messages, usage, sandboxes, clock, runsLeft, requests>>

\* the response (record or error) reaches the client and the frame is dropped
Complete(c) ==
    /\ calls[c].pc = "responded"
    /\ calls' = [calls EXCEPT ![c] = FinishedCall]
    /\ UNCHANGED <<projects, messages, usage, jobs, sandboxes, clock, runsLeft, requests>>

----------------------------------------------------------------------------
(* Agent outputs.  A text is the sequence of its tokens; <<>> is the empty  *)
(* string, which JavaScript treats like undefined in a truth test.          *)

Marker == "<task_summary>"

\* an answer without the marker
PlainText == <<"working">>

\* an answer with text around the marked summary
SummaryText == <<"Done.", Marker, "built", "</task_summary>">>

AgentTexts == {<<>>, PlainText, SummaryText}

File(path, content) == [path |-> path, content |-> content]

WriteCall(list) == ToolCall("createOrUpdateFiles", list, <<>>, "")

ReadCall(paths) == ToolCall("readFiles", <<>>, paths, "")

TerminalCall(command) == ToolCall("terminal", <<>>, <<>>, command)

\* argument lists the agent passes to createOrUpdateFiles
FileLists ==
    { <<File("app/page.tsx", "v1"), File("app/button.tsx", "v1")>> }

\* further argument lists: one path again, one path twice, no file
ToolFileLists ==
    FileLists \cup
    { <<File("app/page.tsx", "v2")>>,
      <<File("app/page.tsx", "v1"), File("app/page.tsx", "v2")>>,
      <<>> }

\* argument lists the agent passes to readFiles
PathLists ==
    { <<"app/button.tsx", "app/page.tsx">>, <<"app/page.tsx", "app/page.tsx">> }

\* commands the agent passes to terminal
Commands == {"npm install"}

\* the files of the sandbox template
TemplateFs == [p \in {"app/page.tsx"} |-> "template"]

\* one model response: the last assistant text and the tool calls
Responses ==
    [text : AgentTexts,
     toolCalls : {<<>>} \cup {<<WriteCall(l)>> : l \in FileLists}]

\* the responses of an agent that uses all three tools
ToolResponses ==
    [text : {PlainText, SummaryText},
     toolCalls : {<<>>} \cup {<<WriteCall(l)>> : l \in ToolFileLists}
                 \cup {<<ReadCall(l)>> : l \in PathLists}
                 \cup {<<TerminalCall(c)>> : c \in Commands}]

\* argument lists of an agent that writes one file
SingleFileLists ==
    { <<File("app/page.tsx", "v1")>>, <<File("app/button.tsx", "v1")>> }

\* the responses of an agent that finishes with its first answer, as the
\* system prompt asks: the summary, with or without one createOrUpdateFiles
\* call
FinalResponses ==
    [text : {SummaryText},
     toolCalls : {<<>>} \cup {<<WriteCall(l)>> : l \in SingleFileLists}]

\* the responses the model may give in a behaviour
ResponsesOf(menu) ==
    IF menu = "tools" THEN ToolResponses
    ELSE IF menu = "race" THEN FinalResponses
    ELSE Responses

\* text.includes(marker)
Includes(text, marker) == \E i \in 1..Len(text) : text[i] = marker

\* lifecycle.onResponse: the summary after a response with this last
\* assistant text
OnResponse(summary, text) ==
    IF text # <<>> /\ Includes(text, Marker) THEN text ELSE summary

\* a faulty variant: the router selects the coding agent whatever the summary
RouterAlways(summary) == "code-agent"

\* router: undefined (stop) once the summary is set, else the coding agent
Router(summary) == IF summary # <<>> THEN "stop" ELSE "code-agent"

\* a faulty variant: the loop bound is off by one
MayIterateOffByOne(counter) == counter <= maxIter

\* the network loop runs another agent while the counter is below maxIter
MayIterate(counter) == counter < maxIter

\* a faulty variant: a path that is in the map keeps its content
AssignKeepFirst(files, file) ==
    [p \in DOMAIN files \cup {file.path} |->
        IF p \in DOMAIN files THEN files[p] ELSE file.content]

\* a faulty variant: the content is appended to the content of the path
AssignAppend(files, file) ==
    [p \in DOMAIN files \cup {file.path} |->
        IF p # file.path THEN files[p]
        ELSE IF p \in DOMAIN files THEN files[p] \o file.content
        ELSE file.content]

\* updateFiles[file.path] = file.content
Assign(files, file) ==
    [p \in DOMAIN files \cup {file.path} |->
        IF p = file.path THEN file.content ELSE files[p]]

\* updateFiles after the first k files of the list were written
RECURSIVE WriteFiles(_, _, _)
WriteFiles(files, list, k) ==
    IF k = 0 THEN files
    ELSE Assign(WriteFiles(files, list, k - 1), list[k])

\* Object.keys(files || {}).length === 0
NoKeys(files) == DOMAIN files = {}

\* a faulty variant: the classification looks at the files only
IsErrorFilesOnly(summary, files) == NoKeys(files)

\* a faulty variant: the classification needs both fields empty
IsErrorBoth(summary, files) == summary = <<>> /\ NoKeys(files)

\* const isError = !summary || Object.keys(files || {}).length === 0
IsError(summary, files) == summary = <<>> \/ NoKeys(files)

\* outputs of the two single-shot generators (one text message each)
TitleOutputs == { <<[type |-> "text", content |-> "Counter"]>> }

ResponseOutputs == { <<[type |-> "text", content |-> "Here is your app"]>> }

\* parseAgentOutput: the text of the first output message
parseAgentOutput(output) ==
    IF output[1].type # "text" THEN "Fragment" ELSE output[1].content

ErrorContent == "Something went wrong. try again!!!"

\* `https://${sandbox.getHost(3000)}`
SandboxUrl(sandboxId) == "https://3000-sbx" \o ToString(sandboxId)

StepNames ==
    {"get-sandbox-id", "get-previous-messages", "get-sandbox-url", "save-result"}

\* a faulty variant: the result is saved before the preview URL is fetched
HandlerOrderSaveFirst ==
    <<"get-sandbox-id", "get-previous-messages", "network", "save-result",
      "get-sandbox-url", "done">>

\* the handler's program order: the named steps around network.run
HandlerOrder ==
    <<"get-sandbox-id", "get-previous-messages", "network", "get-sandbox-url",
      "save-result", "done">>

\* a faulty variant: the result of save-result is not kept and the step runs again
AfterStepRerun(pc) ==
    IF pc = "save-result" THEN "save-result"
    ELSE HandlerOrder[(CHOOSE k \in 1..Len(HandlerOrder) : HandlerOrder[k] = pc) + 1]

\* where the handler continues once the step or loop at pc has completed
AfterStep(pc) ==
    HandlerOrder[(CHOOSE k \in 1..Len(HandlerOrder) : HandlerOrder[k] = pc) + 1]

----------------------------------------------------------------------------
(* The code-agent handler, one action per step *)

\* the step runner picks the event up and invokes the handler
StartRun(j) ==
    /\ jobs[j].pc = "queued"
    /\ runsLeft > 0
    /\ runsLeft' = runsLeft - 1
    /\ jobs' = [jobs EXCEPT ![j] = [@ EXCEPT !.pc = "get-sandbox-id"]]
    /\ UNCHANGED <<projects, messages, usage, calls, sandboxes, clock, requests>>

\* step get-sandbix-id: Sandbox.create
GetSandboxId(j) ==
    /\ jobs[j].pc = "get-sandbox-id"
    /\ sandboxes' = Append(sandboxes, [job |-> j, fs |-> TemplateFs])
    /\ jobs' = [jobs EXCEPT ![j] =
          [@ EXCEPT !.sandboxId = Len(sandboxes) + 1,
                    !.pc = AfterStep("get-sandbox-id"), !.attempt = 0]]
    /\ UNCHANGED <<projects, messages, usage, calls, clock, runsLeft, requests>>

\* prisma.message.findMany({ where: { projectId } }): an undefined filter
\* value is no filter
MatchesProject(m, projectId) == projectId = Undefined \/ m.projectId = projectId

\* the rows of the project, newest first (orderBy createdAt desc), formatted
RECURSIVE FormattedMessages(_, _)
FormattedMessages(n, projectId) ==
    IF n = 0 THEN <<>>
    ELSE IF MatchesProject(messages[n], projectId)
    THEN <<[type |-> "text",
            role |-> IF messages[n].role = "ASSISTANT" THEN "assistant" ELSE "user",
            content |-> messages[n].content]>>
         \o FormattedMessages(n - 1, projectId)
    ELSE FormattedMessages(n - 1, projectId)

\* a faulty variant: the state object is kept between invocations, so a run starts
\* from the files another run has collected
CreateStateShared(j) ==
    [summary |-> <<>>,
     files |-> IF \E i \in CallIds : i # j /\ jobs[i].files # EmptyFiles
               THEN jobs[CHOOSE i \in CallIds :
                            i # j /\ jobs[i].files # EmptyFiles].files
               ELSE EmptyFiles]

\* createState({ summary: "", files: {} }, ...): a new state object for
\* every invocation of the handler
CreateState(j) == [summary |-> <<>>, files |-> EmptyFiles]

\* step get-previous-messages, and the state the handler creates after it
GetPreviousMessages(j) ==
    /\ jobs[j].pc = "get-previous-messages"
    /\ jobs' = [jobs EXCEPT ![j] =
          [@ EXCEPT !.previousMessages =
                        FormattedMessages(Len(messages),
                                          EventField(jobs[j].data, "projectId")),
                    !.summary = CreateState(j).summary,
                    !.files = CreateState(j).files,
                    !.pc = AfterStep("get-previous-messages"), !.attempt = 0]]
    /\ UNCHANGED <<projects, messages, usage, calls, sandboxes, clock, runsLeft, requests>>

\* one network iteration: the router selects the coding agent, the model
\* answers, onResponse runs, and the tool call (if any) is left to its step
AgentRun(j) ==
    /\ jobs[j].pc = "network"
    /\ MayIterate(jobs[j].counter)
    /\ Router(jobs[j].summary) = "code-agent"
    /\ \E r \in ResponsesOf(requests) :
          jobs' = [jobs EXCEPT ![j] =
             [@ EXCEPT !.summary = OnResponse(@, r.text),
                       !.markerSeen = @ \/ Includes(r.text, Marker),
                       !.pending = r.toolCalls,
                       !.counter = IF r.toolCalls = <<>> THEN @ + 1 ELSE @,
                       !.pc = IF r.toolCalls = <<>> THEN "network" ELSE "tool"]]
    /\ UNCHANGED <<projects, messages, usage, calls, sandboxes, clock, runsLeft, requests>>

\* exceptions a sandbox call may raise
Exceptions == {"SandboxError"}

\* "error" + e
ErrorString(e) == <<"error", e>>

\* the shared files map after the step of a createOrUpdateFiles call that
\* wrote k files: the callback assigns into the shared object, so the k
\* entries are in it when the handler goes on in the same invocation
\* (inPlace); when the step runner resumes the handler from the recorded
\* step results, a returned map is assigned and an error string is not
FilesAfter(files, list, k, ok, inPlace) ==
    IF ok \/ inPlace THEN WriteFiles(files, list, k) ELSE files

\* what the step of createOrUpdateFiles returns: the map (kept in files)
\* or the error string; the handler returns nothing to the agent
WriteOutput(call, ok, e) ==
    IF ok THEN ToolOutput(call, "", <<>>, <<>>, FALSE, <<>>, <<>>)
    ELSE ToolOutput(call, e, ErrorString(e), <<>>, FALSE, <<>>, <<>>)

\* tool step createOrUpdateFiles: every file is written (ok, k = Len), or
\* getSandbox or the write of file k+1 throws after k writes
CreateOrUpdateFiles(j) ==
    /\ jobs[j].pc = "tool"
    /\ jobs[j].pending[1].tool = "createOrUpdateFiles"
    /\ LET call == jobs[j].pending[1]
           list == call.files IN
       \E k \in 0..Len(list), ok \in BOOLEAN, inPlace \in BOOLEAN,
          e \in Exceptions :
          /\ \/ ok /\ inPlace /\ k = Len(list)
             \/ ~ok /\ (k < Len(list) \/ k = 0)
          /\ sandboxes' = [sandboxes EXCEPT ![jobs[j].sandboxId] =
                [@ EXCEPT !.fs = WriteFiles(@, list, k)]]
          /\ jobs' = [jobs EXCEPT ![j] =
                [@ EXCEPT !.files = FilesAfter(@, list, k, ok, inPlace),
                          !.toolOutput = WriteOutput(call, ok, e),
                          !.written = @ \cup {list[i].path : i \in 1..k},
                          !.repeated = ok /\ jobs[j].toolOutput.call = call
                                          /\ jobs[j].toolOutput.thrown = "",
                          !.pending = <<>>,
                          !.counter = @ + 1,
                          !.pc = "network"]]
    /\ UNCHANGED <<projects, messages, usage, calls, clock, runsLeft, requests>>

\* what a command prints
Stdout(command) == <<"added 1 package">>

\* what the buffers may hold when the command fails
CapturedStdout(command) == {<<>>, Stdout(command)}

CapturedStderr(command) == {<<>>, <<"npm ERR!">>}

\* a faulty variant: the error text leaves the stderr buffer out
CommandFailedNoStderr(e, stdout, stderr) ==
    <<"command failed : ", e, " \n stdout: ">> \o stdout

\* `command failed : ${e} \n stdout: ${buffers.stdout} \n stderr ${buffers.stderr}`
CommandFailed(e, stdout, stderr) ==
    <<"command failed : ", e, " \n stdout: ">> \o stdout
        \o <<" \n stderr ">> \o stderr

\* tool step terminal: the command's stdout, or the text of the failure
Terminal(j) ==
    /\ jobs[j].pc = "tool"
    /\ jobs[j].pending[1].tool = "terminal"
    /\ LET call == jobs[j].pending[1] IN
       \E out \in
            {ToolOutput(call, "", Stdout(call.command), <<>>, TRUE,
                        Stdout(call.command), <<>>)}
            \cup {ToolOutput(call, e, CommandFailed(e, so, se), <<>>, TRUE, so, se) :
                    e \in Exceptions, so \in CapturedStdout(call.command),
                    se \in CapturedStderr(call.command)} :
          jobs' = [jobs EXCEPT ![j] =
             [@ EXCEPT !.toolOutput = out,
                       !.repeated = FALSE,
                       !.pending = <<>>,
                       !.counter = @ + 1,
                       !.pc = "network"]]
    /\ UNCHANGED <<projects, messages, usage, calls, sandboxes, clock, runsLeft, requests>>

\* sandbox.files.read succeeds on the first k paths
Readable(fs, paths, k) == \A i \in 1..k : paths[i] \in DOMAIN fs

\* contents after k reads
ReadContents(fs, paths, k) == [i \in 1..k |-> File(paths[i], fs[paths[i]])]

\* a faulty variant: a failed call returns the entries read so far
ReadResultPartial(call, fs, k, ok, e) ==
    ToolOutput(call, IF ok THEN "" ELSE e, <<>>,
               ReadContents(fs, call.paths, k), TRUE, <<>>, <<>>)

\* what readFiles returns: JSON.stringify(contents) once every path was
\* read, or the error string
ReadResult(call, fs, k, ok, e) ==
    IF ok
    THEN ToolOutput(call, "", <<>>, ReadContents(fs, call.paths, k), TRUE,
                    <<>>, <<>>)
    ELSE ToolOutput(call, e, ErrorString(e), <<>>, TRUE, <<>>, <<>>)

\* tool step readFiles: every path is read (ok, k = Len), or getSandbox or
\* the read of path k+1 throws after k reads
ReadFiles(j) ==
    /\ jobs[j].pc = "tool"
    /\ jobs[j].pending[1].tool = "readFiles"
    /\ LET call == jobs[j].pending[1]
           fs == sandboxes[jobs[j].sandboxId].fs IN
       \E k \in 0..Len(call.paths), ok \in BOOLEAN, e \in Exceptions :
          /\ Readable(fs, call.paths, k)
          /\ \/ ok /\ k = Len(call.paths)
             \/ ~ok /\ (k < Len(call.paths) \/ k = 0)
          /\ jobs' = [jobs EXCEPT ![j] =
                [@ EXCEPT !.toolOutput = ReadResult(call, fs, k, ok, e),
                          !.repeated = FALSE,
                          !.pending = <<>>,
                          !.counter = @ + 1,
                          !.pc = "network"]]
    /\ UNCHANGED <<projects, messages, usage, calls, sandboxes, clock, runsLeft, requests>>

\* network.run returns; the title and response generators run on the final
\* summary and the run is classified
PostProcess(j) ==
    /\ jobs[j].pc = "network"
    /\ ~MayIterate(jobs[j].counter) \/ Router(jobs[j].summary) = "stop"
    /\ \E t \in TitleOutputs, r \in ResponseOutputs :
          jobs' = [jobs EXCEPT ![j] =
             [@ EXCEPT !.fragmentTitleOutput = t,
                       !.responseOutput = r,
                       !.isError = IsError(jobs[j].summary, jobs[j].files),
                       !.pc = AfterStep("network")]]
    /\ UNCHANGED <<projects, messages, usage, calls, sandboxes, clock, runsLeft, requests>>

\* step get-sandbox-url
GetSandboxUrl(j) ==
    /\ jobs[j].pc = "get-sandbox-url"
    /\ jobs' = [jobs EXCEPT ![j] =
          [@ EXCEPT !.sandboxURL = SandboxUrl(jobs[j].sandboxId),
                    !.pc = AfterStep("get-sandbox-url"), !.attempt = 0]]
    /\ UNCHANGED <<projects, messages, usage, calls, sandboxes, clock, runsLeft, requests>>

\* the Fragment the RESULT branch creates with its message
ResultFragment(job) ==
    [sandBoxUrl |-> job.sandboxURL,
     title |-> parseAgentOutput(job.fragmentTitleOutput),
     files |-> job.files]

\* a faulty variant: the RESULT message is created without its fragment
ResultRowNoFragment(job, j, at) ==
    IF job.isError
    THEN MessageRow(EventField(job.data, "projectId"), ErrorContent,
                    "ASSISTANT", "ERROR", <<>>, at, 0, j)
    ELSE MessageRow(EventField(job.data, "projectId"),
                    parseAgentOutput(job.responseOutput),
                    "ASSISTANT", "RESULT", <<>>, at, 0, j)

\* the row the save-result step creates
ResultRow(job, j, at) ==
    IF job.isError
    THEN MessageRow(EventField(job.data, "projectId"), ErrorContent,
                    "ASSISTANT", "ERROR", <<>>, at, 0, j)
    ELSE MessageRow(EventField(job.data, "projectId"),
                    parseAgentOutput(job.responseOutput),
                    "ASSISTANT", "RESULT", <<ResultFragment(job)>>, at, 0, j)

\* prisma.message.create accepts the row: projectId names a Project
RowAccepted(row) == row.projectId \in DOMAIN projects

\* a faulty variant: the write replaces the newest row instead of adding one
InsertRowUpsert(rows, row) ==
    IF rows # <<>> /\ rows[Len(rows)].role = row.role
    THEN [rows EXCEPT ![Len(rows)] = row]
    ELSE Append(rows, row)

\* prisma.message.create: the table with the new row
InsertRow(rows, row) == Append(rows, row)

\* the value the handler returns after save-result
ReturnValue(job) ==
    [url |-> job.sandboxURL, title |-> "Fragment", files |-> job.files,
     summary |-> job.summary]

\* step save-result succeeds: one write creates the message (and fragment);
\* the handler then returns
SaveResult(j) ==
    /\ jobs[j].pc = "save-result"
    /\ RowAccepted(ResultRow(jobs[j], j, clock))
    /\ messages' = InsertRow(messages, ResultRow(jobs[j], j, clock))
    /\ clock' = clock + 1
    /\ jobs' = [jobs EXCEPT ![j] =
          [@ EXCEPT !.pc = AfterStep("save-result"),
                    !.returned = ReturnValue(jobs[j])]]
    /\ UNCHANGED <<projects, usage, calls, sandboxes, runsLeft, requests>>

\* a faulty variant: after a failed step the handler starts over from its first step
AfterThrowRestart(pc, attempt) ==
    IF attempt + 1 >= MaxAttempts THEN "failed" ELSE "get-sandbox-id"

\* the pc after a step threw on this attempt: retried until MaxAttempts
AfterThrow(pc, attempt) == IF attempt + 1 >= MaxAttempts THEN "failed" ELSE pc

\* a named step throws (sandbox or database unreachable, or the row is
\* rejected): nothing is written, the step runner retries it or fails the run
StepThrows(j) ==
    /\ jobs[j].pc \in StepNames
    /\ jobs' = [jobs EXCEPT ![j] =
          [@ EXCEPT !.pc = AfterThrow(@, jobs[j].attempt),
                    !.attempt = @ + 1]]
    /\ UNCHANGED <<projects, messages, usage, calls, sandboxes, clock, runsLeft, requests>>

----------------------------------------------------------------------------
(* messages.getMany and the chat view *)

\* the transformer's wire form of a files mapping: the members of a JSON
\* object
Serialize(files) == {<<p, files[p]>> : p \in DOMAIN files}

\* the mapping parsed from the wire form
Deserialize(members) ==
    [p \in {m[1] : m \in members} |-> (CHOOSE m \in members : m[1] = p)[2]]

\* a row as the client receives it (include: { fragment: true })
Received(row) ==
    IF row.fragment = <<>> THEN row
    ELSE [row EXCEPT !.fragment =
             <<[@[1] EXCEPT !.files = Deserialize(Serialize(@))]>>]

\* a faulty variant: the query does not look at the owner of the project
MatchesOwnerAny(m, userId) == TRUE

\* where: { project: { userId: ctx.auth.userId } }
MatchesOwner(m, userId) ==
    m.projectId \in DOMAIN projects /\ projects[m.projectId].userId = userId

\* a faulty variant: the newest update comes first
OldestNewestFirst(S) ==
    CHOOSE i \in S : \A k \in S :
       \/ messages[i].updatedAt > messages[k].updatedAt
       \/ messages[i].updatedAt = messages[k].updatedAt /\ i >= k

\* the row that orderBy: { updatedAt: "asc" } puts first
Oldest(S) ==
    CHOOSE i \in S : \A k \in S :
       \/ messages[i].updatedAt < messages[k].updatedAt
       \/ messages[i].updatedAt = messages[k].updatedAt /\ i <= k

\* the rows with these indices, orderBy updatedAt asc
RECURSIVE OrderByUpdatedAt(_)
OrderByUpdatedAt(S) ==
    IF S = {} THEN <<>>
    ELSE <<Received(messages[Oldest(S)])>> \o OrderByUpdatedAt(S \ {Oldest(S)})

\* messages.getMany: isAuthed, the input parser (projectId min 1), then the
\* messages of the project if the caller owns it, oldest update first
GetMany(caller, projectId) ==
    IF ~IsAuthed(caller) THEN [code |-> "UNAUTHORIZED", rows |-> <<>>]
    ELSE IF projectId = "" THEN [code |-> "BAD_REQUEST", rows |-> <<>>]
    ELSE [code |-> "OK",
          rows |-> OrderByUpdatedAt(
              {i \in 1..Len(messages) :
                  /\ messages[i].projectId = projectId
                  /\ MatchesOwner(messages[i], caller)})]

\* the chat shows the loading indicator: the last message is a USER message
LoadingShown(rows) == rows # <<>> /\ rows[Len(rows)].role = "USER"

----------------------------------------------------------------------------
(* Specification *)

\* usage row of u1 when the first call arrives: one credit is left
InitialUsage == {FREE_POINTS - 1}

InitWith(menu, used) ==
    /\ projects = [id \in {SeedProject} |-> ProjectRow("u1", 0)]
    /\ messages = <<>>
    /\ \E n \in used : usage = [u \in Users |-> IF u = "u1" THEN n ELSE 0]
    /\ calls = [c \in CallIds |-> IdleCall]
    /\ jobs = [c \in CallIds |-> NoJob]
    /\ sandboxes = <<>>
    /\ clock = 1
    /\ runsLeft = MaxRuns
    /\ requests = menu

CallStep(c) ==
    \/ Invoke(c)
    \/ FindProject(c)
    \/ ConsumeCredits(c)
    \/ ConsumeCreditsThrows(c)
    \/ CreateMessage(c)
    \/ CreateProject(c)
    \/ SendEvent(c)
    \/ ResolverThrows(c)
    \/ Complete(c)

RunStep(j) ==
    \/ StartRun(j)
    \/ GetSandboxId(j)
    \/ GetPreviousMessages(j)
    \/ AgentRun(j)
    \/ CreateOrUpdateFiles(j)
    \/ PostProcess(j)
    \/ GetSandboxUrl(j)
    \/ SaveResult(j)
    \/ StepThrows(j)

\* the whole system on the workflow requests
Init == InitWith("workflow", {FREE_POINTS - 2})

Next == \E c \in CallIds : CallStep(c) \/ RunStep(c)

Spec == Init /\ [][Next]_vars

\* one run of the handler with an agent that uses all three tools, from the
\* state in which messages.create of u1 has returned and its event is queued
InitTools ==
    /\ projects = [id \in {SeedProject} |-> ProjectRow("u1", 0)]
    /\ messages = <<MessageRow(SeedProject, "x", "USER", "RESULT", <<>>, 1, 1, 0)>>
    /\ usage = [u \in Users |-> IF u = "u1" THEN FREE_POINTS - 1 ELSE 0]
    /\ calls = [c \in CallIds |-> IF c = 1 THEN FinishedCall ELSE IdleCall]
    /\ jobs = [c \in CallIds |->
          IF c = 1
          THEN [NoJob EXCEPT !.pc = "queued",
                             !.data = [value |-> "x", projectId |-> SeedProject]]
          ELSE NoJob]
    /\ sandboxes = <<>>
    /\ clock = 2
    /\ runsLeft = MaxRuns
    /\ requests = "tools"

NextTools == \E j \in CallIds : RunStep(j) \/ Terminal(j) \/ ReadFiles(j)

SpecTools == InitTools /\ [][NextTools]_vars

\* the mutation boundary alone, on every request, events left queued
InitCalls == InitWith("all", InitialUsage)

NextCalls == \E c \in CallIds : CallStep(c)

SpecCalls == InitCalls /\ [][NextCalls]_vars

\* the whole system with every event picked up, so that runs overlap; the
\* agent finishes with its first answer
InitRace ==
    /\ projects = [id \in {SeedProject} |-> ProjectRow("u1", 0)]
    /\ messages = <<>>
    /\ usage = [u \in Users |-> IF u = "u1" THEN FREE_POINTS - MaxCalls ELSE 0]
    /\ calls = [c \in CallIds |-> IdleCall]
    /\ jobs = [c \in CallIds |-> NoJob]
    /\ sandboxes = <<>>
    /\ clock = 1
    /\ runsLeft = MaxCalls
    /\ requests = "race"

SpecRace == InitRace /\ [][Next]_vars

\* the steps of a resolver whose services respond
Resolve(c) ==
    \/ FindProject(c)
    \/ ConsumeCredits(c)
    \/ CreateMessage(c)
    \/ CreateProject(c)
    \/ SendEvent(c)
    \/ Complete(c)

\* save-result throws because prisma rejects the row
SaveRejected(j) ==
    /\ jobs[j].pc = "save-result"
    /\ ~RowAccepted(ResultRow(jobs[j], j, clock))
    /\ StepThrows(j)

\* the steps of a run whose sandbox and database respond: a step fails only
\* when its write is rejected
Run(j) ==
    \/ StartRun(j)
    \/ GetSandboxId(j)
    \/ GetPreviousMessages(j)
    \/ AgentRun(j)
    \/ CreateOrUpdateFiles(j)
    \/ PostProcess(j)
    \/ GetSandboxUrl(j)
    \/ SaveResult(j)
    \/ SaveRejected(j)

NextFair == \E c \in CallIds : Invoke(c) \/ Resolve(c) \/ Run(c)

\* the step runner is fair and the services respond: a resolver or a run
\* that can take a step takes one
Fairness == \A c \in CallIds : WF_vars(Resolve(c)) /\ WF_vars(Run(c))

SpecFair == InitRace /\ [][NextFair]_vars /\ Fairness

----------------------------------------------------------------------------
(* Properties *)

\* the rows written by run j
RowsOfJob(j) == {i \in 1..Len(messages) : messages[i].byJob = j}

\* the rows written by call c
RowsOfCall(c) == {i \in 1..Len(messages) : messages[i].byCall = c}

\* C1: a completed run has written exactly one ASSISTANT message, of type
\* ERROR or RESULT, also when steps were retried; no run ever has more than
\* one; a RESULT message of the handler has exactly one Fragment and an ERROR
\* message none.
C1_OneTerminalMessage ==
    /\ \A j \in CallIds :
          /\ Cardinality(RowsOfJob(j)) <= 1
          /\ jobs[j].pc = "done" => Cardinality(RowsOfJob(j)) = 1
    /\ \A i \in 1..Len(messages) :
          messages[i].role = "ASSISTANT" =>
             /\ messages[i].byJob \in CallIds
             /\ messages[i].type \in {"ERROR", "RESULT"}
             /\ messages[i].type = "RESULT" => Len(messages[i].fragment) = 1
             /\ messages[i].type = "ERROR" => messages[i].fragment = <<>>

\* C1 witness: a run completed after its save-result step had thrown once, and
\* its one message is a RESULT with a Fragment
C1_Witness ==
    \E j \in CallIds :
       /\ jobs[j].pc = "done"
       /\ jobs[j].attempt > 0
       /\ \E i \in RowsOfJob(j) :
             messages[i].type = "RESULT" /\ Len(messages[i].fragment) = 1

\* C2: once the event of a call is sent (so before any step of its run) the
\* USER/RESULT message of that call is in the database, with the prompt the
\* event carries; a call that answers with its record has created it.
C2_MessageBeforeEvent ==
    /\ \A c \in CallIds :
          jobs[c].pc # "none" =>
             \E i \in RowsOfCall(c) :
                /\ messages[i].role = "USER"
                /\ messages[i].type = "RESULT"
                /\ messages[i].content = jobs[c].data.value
    /\ \A c \in CallIds :
          calls[c].pc = "responded" /\ calls[c].error = NoError =>
             /\ calls[c].created \in RowsOfCall(c)
             /\ jobs[c].pc # "none"

\* C2 witness: a call has returned its record and its frame is gone while the
\* run of its event is still in the agent loop
C2_Witness ==
    \E c \in CallIds :
       /\ calls[c].pc = "finished"
       /\ jobs[c].pc = "network"
       /\ jobs[c].counter > 0
       /\ RowsOfCall(c) # {}

\* agent invocations of run j so far: completed ones plus the one whose tool
\* step is pending
Invocations(j) == jobs[j].counter + (IF jobs[j].pc = "tool" THEN 1 ELSE 0)

\* progress of run j through the agent loop
LoopMeasure(j) == 2 * jobs[j].counter + (IF jobs[j].pc = "tool" THEN 1 ELSE 0)

InLoop(pc) == pc \in {"network", "tool"}

\* C3: in every run the coding agent is invoked at most maxIter times, and
\* every step of a run that stays in the agent loop strictly increases a
\* measure bounded by 2 * maxIter, so the loop ends whatever the agent and
\* its tools do.
C3_LoopBounded ==
    /\ [](\A j \in CallIds :
             Invocations(j) <= maxIter /\ LoopMeasure(j) <= 2 * maxIter)
    /\ [][\A j \in CallIds :
             (InLoop(jobs[j].pc) /\ InLoop(jobs'[j].pc) /\ jobs'[j] # jobs[j])
                => LoopMeasure(j)' > LoopMeasure(j)]_vars

\* C3 witness: a run used all maxIter invocations, with tool calls, and never
\* got the marker
C3_Witness ==
    \E j \in CallIds :
       /\ jobs[j].pc = "network"
       /\ jobs[j].counter = maxIter
       /\ jobs[j].summary = <<>>
       /\ DOMAIN jobs[j].files # {}

\* network.run has returned in run j (the generators have run)
LoopEnded(j) == jobs[j].responseOutput # <<>>

\* C4: a run in which no response contained the marker leaves the loop only
\* at the iteration cap, is classified as an error, and when it completes it
\* has written exactly one ASSISTANT/ERROR message with the fixed text and no
\* Fragment, whatever the files map holds.
C4_NoMarkerIsError ==
    \A j \in CallIds :
       (~jobs[j].markerSeen /\ LoopEnded(j))
          => /\ jobs[j].counter = maxIter
             /\ jobs[j].isError
             /\ jobs[j].pc = "done" =>
                   /\ Cardinality(RowsOfJob(j)) = 1
                   /\ \A i \in RowsOfJob(j) :
                         /\ messages[i].role = "ASSISTANT"
                         /\ messages[i].type = "ERROR"
                         /\ messages[i].content = ErrorContent
                         /\ messages[i].fragment = <<>>

\* C4 witness: such a run completed with a non-empty files map
C4_Witness ==
    \E j \in CallIds :
       /\ jobs[j].pc = "done"
       /\ ~jobs[j].markerSeen
       /\ DOMAIN jobs[j].files # {}
       /\ \E i \in RowsOfJob(j) : messages[i].type = "ERROR"

\* C5: the row of a completed run is decided by the final summary and files:
\* ERROR without Fragment iff the summary is empty or the files map has no
\* keys; otherwise RESULT with one Fragment holding the sandbox URL, the
\* generated title and exactly the final files map.
C5_OutcomeOfFinalState ==
    \A j \in CallIds :
       jobs[j].pc = "done" =>
          \A i \in RowsOfJob(j) :
             IF jobs[j].summary = <<>> \/ DOMAIN jobs[j].files = {}
             THEN /\ messages[i].type = "ERROR"
                  /\ messages[i].fragment = <<>>
             ELSE /\ messages[i].type = "RESULT"
                  /\ messages[i].role = "ASSISTANT"
                  /\ Len(messages[i].fragment) = 1
                  /\ messages[i].fragment[1].sandBoxUrl = SandboxUrl(jobs[j].sandboxId)
                  /\ messages[i].fragment[1].title = jobs[j].fragmentTitleOutput[1].content
                  /\ messages[i].fragment[1].files = jobs[j].files

\* C5 witness: a run with a summary and two files completed with a RESULT row
C5_Witness ==
    \E j \in CallIds :
       /\ jobs[j].pc = "done"
       /\ jobs[j].summary # <<>>
       /\ Cardinality(DOMAIN jobs[j].files) = 2
       /\ \E i \in RowsOfJob(j) :
             messages[i].type = "RESULT" /\ messages[i].fragment[1].files = jobs[j].files

\* call c has been made and its frame is still there
InFlight(c) == calls[c].pc \notin {"idle", "finished"}

\* the database, the ledger and the event queue
Effects == <<projects, messages, usage, jobs>>

\* C6 (as claimed): every event sent carries value and projectId, and
\* projectId is the project of the USER message of the call that sent it.
C6_PayloadHasProjectId ==
    \A c \in CallIds :
       jobs[c].pc # "none" =>
          /\ "value" \in DOMAIN jobs[c].data
          /\ "projectId" \in DOMAIN jobs[c].data
          /\ \E i \in RowsOfCall(c) :
                messages[i].projectId = jobs[c].data.projectId

\* the zod messages of the value schema
ValueMessages ==
    {"Message is required", "Message is too long",
     "Value is required", "Value is too long"}

InvalidValue(v) == ValueLen(v) = 0 \/ ValueLen(v) > 10000

\* C7: a create call with an empty or over-long value is rejected before any
\* side effect: no step of it changes a row, the ledger or the event queue,
\* and it has created nothing, consumed nothing and sent nothing.  The
\* rejection is the validation error of the value whenever the request gets
\* to the input parser (messages.create rejects a signed-out caller first,
\* with UNAUTHORIZED).  Values of length 1 and 10000 never get it.
C7_InvalidValueRejected ==
    /\ [](\A c \in CallIds :
            /\ (InFlight(c) /\ InvalidValue(calls[c].value)) =>
                  /\ calls[c].pc = "responded"
                  /\ calls[c].error.code =
                        IF calls[c].proc = "messages.create" /\ calls[c].caller = NoUser
                        THEN "UNAUTHORIZED" ELSE "BAD_REQUEST"
                  /\ calls[c].error.code = "BAD_REQUEST" =>
                        calls[c].error.message \in ValueMessages
                  /\ RowsOfCall(c) = {}
                  /\ NewProjectId(c) \notin DOMAIN projects
                  /\ ~calls[c].consumed
                  /\ jobs[c].pc = "none"
            /\ (InFlight(c) /\ ValueLen(calls[c].value) \in {1, 10000}) =>
                  calls[c].error.message \notin ValueMessages)
    /\ [][\A c \in CallIds :
            (calls'[c] # calls[c] /\ InvalidValue(calls'[c].value)
               /\ calls'[c].pc # "finished")
               => Effects' = Effects]_vars

\* C7 witness: an over-long value was rejected with the validation error, and
\* a value of length 10000 of the same caller went on to be stored
C7_Witness ==
    \E c, d \in CallIds :
       /\ calls[c].pc = "responded"
       /\ calls[c].value = "x*10001"
       /\ calls[c].error = TRPCError("BAD_REQUEST", "Message is too long")
       /\ \E i \in RowsOfCall(d) : messages[i].content = "x*10000"

\* the request of call c got to the resolver of messages.create
ReachedResolver(c) ==
    /\ InFlight(c)
    /\ calls[c].proc = "messages.create"
    /\ MiddlewareError("messages.create", calls[c].caller, calls[c].value,
                       calls[c].projectId) = NoError

\* the project of call c is missing or belongs to another user
NotOwned(c) ==
    \/ calls[c].projectId \notin DOMAIN projects
    \/ projects[calls[c].projectId].userId # calls[c].caller

\* C8: a messages.create call of an authenticated caller for a project that
\* does not exist or is not the caller's ends with NOT_FOUND, and no step of
\* it changes a row, the ledger or the event queue: no credit is consumed, no
\* message is created and no event is sent.
C8_NotFoundNoEffect ==
    /\ [](\A c \in CallIds :
            (ReachedResolver(c) /\ NotOwned(c)) =>
               /\ calls[c].pc \in {"findProject", "responded"}
               /\ calls[c].pc = "responded" => calls[c].error.code = "NOT_FOUND"
               /\ ~calls[c].consumed
               /\ RowsOfCall(c) = {}
               /\ jobs[c].pc = "none")
    /\ [][\A c \in CallIds :
            (calls'[c] # calls[c] /\ calls'[c].proc = "messages.create"
               /\ calls'[c].pc # "finished"
               /\ (calls'[c].projectId \notin DOMAIN projects
                   \/ projects[calls'[c].projectId].userId # calls'[c].caller))
               => Effects' = Effects]_vars

\* C8 witness: u2 asked for the project of u1 and got NOT_FOUND, and an
\* unknown project id got NOT_FOUND too
C8_Witness ==
    \E c, d \in CallIds :
       /\ calls[c].pc = "responded" /\ calls[d].pc = "responded"
       /\ calls[c].caller = "u2" /\ calls[c].projectId = SeedProject
       /\ calls[c].error.code = "NOT_FOUND"
       /\ calls[d].caller = "u1" /\ calls[d].projectId = "pX"
       /\ calls[d].error.code = "NOT_FOUND"

\* the caller of call c has no credit left
Exhausted(c) == usage[calls[c].caller] >= FREE_POINTS

\* C9: a consumeCredits call made with no credit left ends the mutation with
\* TOO_MANY_REQUESTS when the limiter answers, and a consumeCredits call that
\* throws an Error ends it with BAD_REQUEST; a call ended by either has
\* created no message and sent no event.
C9_CreditErrors ==
    /\ [](\A c \in CallIds :
            (InFlight(c) /\ calls[c].proc = "messages.create"
               /\ calls[c].error.code \in {"TOO_MANY_REQUESTS", "BAD_REQUEST"})
               => /\ calls[c].pc = "responded"
                  /\ RowsOfCall(c) = {}
                  /\ ~calls[c].sent
                  /\ jobs[c].pc = "none")
    /\ [][\A c \in CallIds :
            (calls[c].pc = "consumeCredits" /\ calls'[c] # calls[c]) =>
               /\ (Exhausted(c) /\ usage' # usage)
                     => calls'[c].error.code = "TOO_MANY_REQUESTS"
               /\ (~Exhausted(c) /\ usage' # usage)
                     => calls'[c].error = NoError
               /\ usage' = usage => calls'[c].error.code = "BAD_REQUEST"
               /\ messages' = messages /\ jobs' = jobs]_vars

\* C9 witness: a call was refused with TOO_MANY_REQUESTS after an earlier
\* call of the same user had used the last credit
C9_Witness ==
    \E c, d \in CallIds :
       /\ c # d
       /\ calls[c].pc = "responded"
       /\ calls[c].error.code = "TOO_MANY_REQUESTS"
       /\ RowsOfCall(c) = {}
       /\ RowsOfCall(d) # {}
       /\ usage[calls[c].caller] > FREE_POINTS

\* C10 (as claimed): an event is sent only by a call whose caller was
\* authenticated and which consumed one credit.
C10_EventOnlyAfterCredit ==
    \A c \in CallIds :
       (InFlight(c) /\ calls[c].sent) =>
          /\ IsAuthed(calls[c].caller)
          /\ calls[c].consumed

----------------------------------------------------------------------------
(* The tools of the coding agent *)

\* the step of job j that the primed state completes was a call of this tool
ToolStepOf(j, tool) ==
    /\ jobs[j].pc = "tool"
    /\ jobs'[j].pc = "network"
    /\ jobs'[j].toolOutput.call.tool = tool

\* C11: when a createOrUpdateFiles call raises an exception (at the sandbox
\* connection or at the write of a later file), its step yields the error
\* string and the shared files map is what it was before the call.
C11_FailedWriteKeepsFiles ==
    [][\A j \in CallIds :
          ToolStepOf(j, "createOrUpdateFiles") /\ jobs'[j].toolOutput.thrown # ""
          => /\ jobs'[j].toolOutput.text = ErrorString(jobs'[j].toolOutput.thrown)
             /\ jobs'[j].files = jobs[j].files]_vars

\* the paths of a list
Paths(list) == {list[i].path : i \in 1..Len(list)}

\* the content of the last occurrence of a path in a list
LastContent(list, p) ==
    list[CHOOSE i \in 1..Len(list) :
            list[i].path = p /\ \A n \in (i + 1)..Len(list) : list[n].path # p].content

\* C12: a successful createOrUpdateFiles call leaves the files map equal to
\* the previous map overridden by the list (every listed path has the
\* content of its last occurrence, every other path keeps its content), and
\* no step of a run removes a key.
C12_MergeOverrides ==
    [][\A j \in CallIds :
          /\ jobs[j].pc \notin {"none", "queued"}
             => DOMAIN jobs[j].files \subseteq DOMAIN jobs'[j].files
          /\ ToolStepOf(j, "createOrUpdateFiles") /\ jobs'[j].toolOutput.thrown = ""
             => LET list == jobs'[j].toolOutput.call.files IN
                /\ DOMAIN jobs'[j].files = DOMAIN jobs[j].files \cup Paths(list)
                /\ \A p \in DOMAIN jobs'[j].files :
                      jobs'[j].files[p] =
                         IF p \in Paths(list) THEN LastContent(list, p)
                         ELSE jobs[j].files[p]]_vars

\* a call that lists one path twice has overridden an entry and kept another
C12_Witness ==
    \E j \in CallIds :
       /\ jobs[j].toolOutput.call =
             WriteCall(<<File("app/page.tsx", "v1"), File("app/page.tsx", "v2")>>)
       /\ jobs[j].toolOutput.thrown = ""
       /\ jobs[j].files = [p \in {"app/page.tsx", "app/button.tsx"} |->
                             IF p = "app/page.tsx" THEN "v2" ELSE "v1"]

\* C13: applying the same successful createOrUpdateFiles call twice in a row
\* yields the same files map as applying it once.
C13_WriteIdempotent ==
    [][\A j \in CallIds :
          ToolStepOf(j, "createOrUpdateFiles") /\ jobs'[j].repeated
          => jobs'[j].files = jobs[j].files]_vars

\* the same non-empty list was applied twice in a row to a map that held
\* another content for one of its paths before
C13_Witness ==
    \E j \in CallIds :
       /\ jobs[j].repeated
       /\ jobs[j].toolOutput.call = WriteCall(<<File("app/page.tsx", "v2")>>)
       /\ "app/button.tsx" \in DOMAIN jobs[j].files

----------------------------------------------------------------------------
(* The router and the summary *)

\* the step of job j is an invocation of the coding agent
AgentInvoked(j) ==
    /\ jobs[j].pc = "network"
    /\ jobs'[j].pc \in {"network", "tool"}
    /\ jobs'[j] # jobs[j]

\* the step of job j leaves the loop
LoopLeft(j) == jobs[j].pc = "network" /\ jobs'[j].pc = "get-sandbox-url"

\* C14: the router is the loop's only stop decision besides the iteration
\* cap: the coding agent is invoked only while the summary is empty, the loop
\* is left only with a summary or at the cap, and a summary once set is never
\* changed, so the agent is never invoked after it.
C14_RouterStopsOnSummary ==
    [][\A j \in CallIds :
          /\ AgentInvoked(j)
             => jobs[j].summary = <<>> /\ jobs[j].counter < maxIter
          /\ LoopLeft(j)
             => jobs[j].summary # <<>> \/ jobs[j].counter >= maxIter
          /\ jobs[j].summary # <<>>
             => jobs'[j].summary = jobs[j].summary
                /\ Invocations(j)' = Invocations(j)]_vars

\* the router stopped a run after its third response, below the cap
C14_Witness ==
    \E j \in CallIds :
       /\ jobs[j].pc = "get-sandbox-url"
       /\ jobs[j].summary # <<>>
       /\ jobs[j].counter = 3

\* the text between the marker and its closing tag
Enclosed(text) ==
    LET open == CHOOSE i \in 1..Len(text) : text[i] = Marker
        close == CHOOSE i \in 1..Len(text) : text[i] = "</task_summary>"
    IN  SubSeq(text, open + 1, close - 1)

\* C15: after a response whose assistant text contains the marker the
\* summary is the text enclosed by the marker, not the surrounding text of
\* the message; without the marker the summary is left unchanged.
C15_SummaryIsEnclosedText ==
    \A j \in CallIds :
       IF jobs[j].markerSeen
       THEN jobs[j].summary \in
               {Enclosed(t) : t \in {x \in AgentTexts : Includes(x, Marker)}}
       ELSE jobs[j].summary = <<>>

----------------------------------------------------------------------------
(* Failures inside the tools *)

\* sub occurs in text as a run of consecutive tokens
IsInfix(sub, text) ==
    \E i \in 0..(Len(text) - Len(sub)) : SubSeq(text, i + 1, i + Len(sub)) = sub

SandboxFs(j) == sandboxes[jobs[j].sandboxId].fs

\* C17: readFiles returns either the serialized list with one {path,
\* content} entry per requested path, in request order, or an error string,
\* never a partial list, and it changes neither the shared files map nor
\* the summary.
C17_ReadAllOrError ==
    /\ [](\A j \in CallIds :
            LET out == jobs[j].toolOutput
                paths == jobs[j].toolOutput.call.paths IN
            out.call.tool = "readFiles"
            => /\ out.returned
               /\ IF out.thrown = ""
                  THEN /\ out.text = <<>>
                       /\ Len(out.contents) = Len(paths)
                       /\ \A i \in 1..Len(paths) :
                             /\ out.contents[i].path = paths[i]
                             /\ out.contents[i].content = SandboxFs(j)[paths[i]]
                  ELSE /\ out.contents = <<>>
                       /\ out.text = ErrorString(out.thrown))
    /\ [][\A j \in CallIds :
            ToolStepOf(j, "readFiles")
            => /\ jobs'[j].files = jobs[j].files
               /\ jobs'[j].summary = jobs[j].summary]_vars

\* both requested files were read, the written one first
C17_Witness ==
    \E j \in CallIds :
       /\ jobs[j].toolOutput.call = ReadCall(<<"app/button.tsx", "app/page.tsx">>)
       /\ jobs[j].toolOutput.thrown = ""
       /\ Len(jobs[j].toolOutput.contents) = 2
       /\ jobs[j].files # EmptyFiles

----------------------------------------------------------------------------
(* The conversation buffer and the result *)

\* the project of the event of job j: the project of the message its call
\* created
EventProject(j) ==
    messages[CHOOSE i \in 1..Len(messages) : messages[i].byCall = j].projectId

\* the rows of a project, newest first
RECURSIVE RowsNewestFirst(_, _)
RowsNewestFirst(n, p) ==
    IF n = 0 THEN <<>>
    ELSE (IF messages[n].projectId = p THEN <<messages[n]>> ELSE <<>>)
         \o RowsNewestFirst(n - 1, p)

\* the conversation buffer of a project
BufferOf(p) ==
    LET rows == RowsNewestFirst(Len(messages), p) IN
    [i \in 1..Len(rows) |->
        [type |-> "text",
         role |-> IF rows[i].role = "ASSISTANT" THEN "assistant" ELSE "user",
         content |-> rows[i].content]]

\* C18: the buffer the get-previous-messages step loads holds exactly the
\* messages of the event's project, newest first, ASSISTANT as assistant and
\* USER as user, for events of messages.create and of projects.create.
C18_BufferOfOwnProject ==
    [][\A j \in CallIds :
          jobs[j].pc = "get-previous-messages" /\ jobs'[j].pc = "network"
          => jobs'[j].previousMessages = BufferOf(EventProject(j))]_vars

\* the provision step of job j failed for good
ProvisionFailed(j) == jobs[j].pc = "failed" /\ jobs[j].sandboxId = 0

\* C19: a run whose provision step failed terminally has written no
\* ASSISTANT message and no fragment, and no run writes an ASSISTANT message
\* before its agent loop has ended and its preview URL step has succeeded.
C19_NoMessageBeforeUrl ==
    \A j \in CallIds :
       /\ ProvisionFailed(j) => RowsOfJob(j) = {}
       /\ RowsOfJob(j) # {} => LoopEnded(j) /\ jobs[j].sandboxURL # ""

\* a run failed at the provision step while the message of its call is stored
C19_Witness ==
    \E j \in CallIds :
       /\ ProvisionFailed(j)
       /\ jobs[j].attempt = MaxAttempts
       /\ RowsOfCall(j) # {}

\* C20: the RESULT message and its fragment are written in one write: a
\* row has a fragment iff it is an ASSISTANT/RESULT message, and a failing
\* save-result attempt leaves the Message table as it was.
C20_FragmentWithMessage ==
    /\ [](\A i \in 1..Len(messages) :
            /\ Len(messages[i].fragment) <= 1
            /\ messages[i].fragment # <<>>
               <=> messages[i].role = "ASSISTANT" /\ messages[i].type = "RESULT")
    /\ [][\A j \in CallIds :
            jobs[j].pc = "save-result" /\ jobs'[j].attempt > jobs[j].attempt
            => messages' = messages]_vars

\* a RESULT message with its fragment was saved on the attempt after a
\* failed one
C20_Witness ==
    \E j \in CallIds :
       /\ jobs[j].pc = "done"
       /\ jobs[j].attempt > 0
       /\ \E i \in RowsOfJob(j) :
             messages[i].type = "RESULT" /\ messages[i].fragment # <<>>

----------------------------------------------------------------------------
(* Steps, runs and sandboxes *)

\* the place of a handler position in the program order
Rank(pc) ==
    CASE pc = "get-sandbox-id" -> 1
      [] pc = "get-previous-messages" -> 2
      [] pc \in {"network", "tool"} -> 3
      [] pc = "get-sandbox-url" -> 4
      [] pc = "save-result" -> 5
      [] pc = "done" -> 6
      [] OTHER -> 0

\* the sandboxes created for run j
SandboxesOf(j) == {s \in 1..Len(sandboxes) : sandboxes[s].job = j}

\* C21: the steps of a run complete in program order (get-sandbox-id,
\* get-previous-messages, the network loop, get-sandbox-url, save-result); a
\* step that has completed is not executed again when a later step is
\* retried, so its result stays what it was; a run creates at most one
\* sandbox, and every tool call and the saved Fragment use that sandbox.
C21_StepsOnceInOrder ==
    /\ [](\A j \in CallIds :
            /\ Cardinality(SandboxesOf(j)) <= 1
            /\ jobs[j].sandboxId # 0 => SandboxesOf(j) = {jobs[j].sandboxId}
            /\ \A i \in RowsOfJob(j) :
                  messages[i].fragment # <<>> =>
                     messages[i].fragment[1].sandBoxUrl
                        = SandboxUrl(jobs[j].sandboxId))
    /\ [][\A j \in CallIds :
            /\ jobs'[j].pc # jobs[j].pc =>
                  \/ jobs[j].pc \in StepNames /\ jobs'[j].pc = "failed"
                  \/ Rank(jobs'[j].pc) = Rank(jobs[j].pc) + 1
                  \/ jobs[j].pc = "network" /\ jobs'[j].pc = "tool"
                  \/ jobs[j].pc = "tool" /\ jobs'[j].pc = "network"
            /\ Rank(jobs[j].pc) > 1 => jobs'[j].sandboxId = jobs[j].sandboxId
            /\ Rank(jobs[j].pc) > 2 =>
                  jobs'[j].previousMessages = jobs[j].previousMessages
            /\ Rank(jobs[j].pc) > 4 => jobs'[j].sandboxURL = jobs[j].sandboxURL
            /\ \A s \in 1..Len(sandboxes) :
                  sandboxes'[s] # sandboxes[s] =>
                     /\ sandboxes[s].job = j => jobs[j].pc = "tool"
                     /\ jobs[j].pc = "tool" /\ jobs'[j] # jobs[j]
                           => s = jobs[j].sandboxId]_vars

\* C21 witness: a run used a tool in its sandbox, had save-result fail once
\* and completed on the retry, with one sandbox
C21_Witness ==
    \E j \in CallIds :
       /\ jobs[j].pc = "done"
       /\ jobs[j].attempt = 1
       /\ jobs[j].toolOutput.call.tool = "createOrUpdateFiles"
       /\ sandboxes[jobs[j].sandboxId].fs # TemplateFs
       /\ Cardinality(SandboxesOf(j)) = 1

\* the paths of a sandbox that differ from the template
ChangedPaths(fs) ==
    {p \in DOMAIN fs : p \notin DOMAIN TemplateFs \/ fs[p] # TemplateFs[p]}

\* C22: runs that overlap, for the same or for different projects, share no
\* mutable state: each has its own sandbox, the files map of a run and the
\* files of its sandbox hold only paths its own createOrUpdateFiles calls
\* wrote, and so does the Fragment it saves.
C22_RunsIsolated ==
    \A j \in CallIds :
       /\ DOMAIN jobs[j].files \subseteq jobs[j].written
       /\ \A s \in SandboxesOf(j) :
             ChangedPaths(sandboxes[s].fs) \subseteq jobs[j].written
       /\ \A i \in CallIds :
             i # j /\ jobs[i].sandboxId # 0 => jobs[i].sandboxId # jobs[j].sandboxId
       /\ \A i \in RowsOfJob(j) :
             messages[i].fragment # <<>> =>
                DOMAIN messages[i].fragment[1].files \subseteq jobs[j].written

\* C22 witness: two runs for the same project overlapped (the one that
\* created its sandbox later saved first) and wrote different paths
C22_Witness ==
    \E i, j \in CallIds :
       /\ jobs[i].pc = "done"
       /\ jobs[j].pc = "save-result"
       /\ jobs[j].sandboxId # 0
       /\ jobs[j].sandboxId < jobs[i].sandboxId
       /\ EventField(jobs[i].data, "projectId") = EventField(jobs[j].data, "projectId")
       /\ jobs[j].written = {"app/button.tsx"}
       /\ \E r \in RowsOfJob(i) :
             /\ messages[r].fragment # <<>>
             /\ DOMAIN messages[r].fragment[1].files = {"app/page.tsx"}

\* the runs whose event names the seeded project
RunsOfSeed ==
    {j \in CallIds : jobs[j].pc # "none"
                      /\ EventField(jobs[j].data, "projectId") = SeedProject}

\* the ASSISTANT messages of the seeded project
AssistantRows ==
    {i \in 1..Len(messages) : messages[i].role = "ASSISTANT"
                               /\ messages[i].projectId = SeedProject}

\* C26: when runs for the same project overlap, every run that completes
\* adds exactly one ASSISTANT message carrying its own outcome, whichever run
\* finishes first: the project has as many ASSISTANT messages as completed
\* runs, and n once all n runs have completed.
C26_OneAnswerPerRun ==
    /\ Cardinality(AssistantRows)
          = Cardinality({j \in RunsOfSeed : jobs[j].pc = "done"})
    /\ \A j \in RunsOfSeed :
          jobs[j].pc = "done" =>
             /\ Cardinality(RowsOfJob(j)) = 1
             /\ \A i \in RowsOfJob(j) :
                   /\ i \in AssistantRows
                   /\ messages[i].type = IF jobs[j].isError THEN "ERROR" ELSE "RESULT"
                   /\ messages[i].fragment =
                         IF jobs[j].isError THEN <<>> ELSE <<ResultFragment(jobs[j])>>

\* C26 witness: two runs for the project overlapped and both completed; the
\* run enqueued second wrote its message first, one an ERROR and one a RESULT
C26_Witness ==
    /\ Cardinality({j \in RunsOfSeed : jobs[j].pc = "done"}) = 2
    /\ Cardinality(AssistantRows) = 2
    /\ \E i, k \in AssistantRows :
          /\ i < k
          /\ messages[i].byJob > messages[k].byJob
          /\ messages[i].type = "RESULT"
          /\ messages[k].type = "ERROR"

----------------------------------------------------------------------------
(* Timestamps *)

\* C23: after every Message creation for a project, by a create mutation
\* or by save-result, Project.updatedAt is at least the creation time of
\* the project's newest Message.
C23_ProjectTouchedByMessage ==
    \A i \in 1..Len(messages) :
       messages[i].projectId \in DOMAIN projects =>
          projects[messages[i].projectId].updatedAt >= messages[i].createdAt

----------------------------------------------------------------------------
(* Reading the conversation *)

\* project ids a client may ask for
QueriedProjects == ProjectIdInputs \cup DOMAIN projects

----------------------------------------------------------------------------
(* Progress *)

\* an ASSISTANT message of the same project follows row i
Answered(i) ==
    \E k \in 1..Len(messages) :
       /\ k > i
       /\ messages[k].role = "ASSISTANT"
       /\ messages[k].projectId = messages[i].projectId

\* C25: every USER message persisted by a create mutation (messages.create
\* or projects.create) is eventually followed by an ASSISTANT message, RESULT
\* or ERROR, in the same project, when the step runner is fair and the
\* services respond.
C25_EveryPromptAnswered ==
    \A c \in CallIds :
       (RowsOfCall(c) # {}) ~> (\E i \in RowsOfCall(c) : Answered(i))

----------------------------------------------------------------------------
(* Partial failure of a mutation *)

\* call c is a messages.create whose resolver has ended
EndedMessagesCreate(c) ==
    calls[c].proc = "messages.create" /\ calls[c].pc = "responded"

\* C27 as claimed: in messages.create a credit is consumed iff an event is
\* enqueued for the call; a call whose Message write or event send failed
\* has consumed nothing.
C27_CreditIffEvent ==
    \A c \in CallIds :
       EndedMessagesCreate(c) => (calls[c].consumed <=> calls[c].sent)

\* C27, amended: in messages.create the Message is written and the event is
\* enqueued only for a call whose consumeCredits succeeded; the credit is not
\* given back: when the Message write or the event send fails after that,
\* the call ends with INTERNAL_SERVER_ERROR, the caller's usage stays as
\* consumeCredits left it, and no usage ever goes down.
C27_CreditKeptOnFailure ==
    /\ [](\A c \in CallIds :
            calls[c].proc = "messages.create" =>
               /\ calls[c].sent => calls[c].consumed
               /\ calls[c].created # 0 => calls[c].consumed
               /\ jobs[c].pc # "none" /\ InFlight(c) => calls[c].consumed)
    /\ [][/\ \A u \in Users : usage'[u] >= usage[u]
          /\ \A c \in CallIds :
                /\ calls[c].proc = "messages.create"
                /\ calls[c].pc \in {"createMessage", "send"}
                /\ calls'[c].pc = "responded"
                /\ ~calls'[c].sent
                => /\ calls'[c].consumed
                   /\ calls'[c].error.code = "INTERNAL_SERVER_ERROR"
                   /\ usage' = usage
                   /\ jobs'[c].pc = "none"]_vars

\* C27 witness: a messages.create of u1 consumed the last credit, its event
\* send failed, and the call ended without an event and with the credit spent
C27_Witness ==
    \E c \in CallIds :
       /\ EndedMessagesCreate(c)
       /\ calls[c].error = TRPCError("INTERNAL_SERVER_ERROR", "send")
       /\ calls[c].consumed
       /\ calls[c].created # 0
       /\ ~calls[c].sent
       /\ jobs[c].pc = "none"
       /\ usage[calls[c].caller] = FREE_POINTS

\* the resolver of call c has ended, with a record or with an error
Ended(c) == calls[c].pc \in {"responded", "finished"}

\* C28 as claimed: once a create mutation has ended, successfully or with
\* an error from the event send, the USER message it persisted has a
\* code-agent/run event enqueued for it.
C28_MessageHasEvent ==
    \A c \in CallIds :
       Ended(c) /\ RowsOfCall(c) # {} => jobs[c].pc # "none"

\* C28, amended: once a create mutation has ended successfully, the USER
\* message it persisted has a code-agent/run event enqueued for it; a
\* mutation that ended leaves its message without an event only when the
\* event send threw, it then ended with INTERNAL_SERVER_ERROR, and the
\* message stays without an event.
C28_EventUnlessSendFailed ==
    /\ [](\A c \in CallIds :
            calls[c].pc = "responded" /\ RowsOfCall(c) # {} =>
               /\ calls[c].error = NoError => calls[c].sent /\ jobs[c].pc # "none"
               /\ jobs[c].pc = "none" =>
                     calls[c].error = TRPCError("INTERNAL_SERVER_ERROR", "send"))
    /\ [][\A c \in CallIds :
            Ended(c) /\ RowsOfCall(c) # {} =>
               /\ (jobs'[c].pc = "none") <=> (jobs[c].pc = "none")
               /\ \A i \in RowsOfCall(c) : messages'[i] = messages[i]]_vars

\* C28 witness: projects.create has written its project and USER message,
\* the event send threw, and the mutation has ended without an event
C28_Witness ==
    \E c \in CallIds :
       /\ calls[c].pc = "responded"
       /\ calls[c].proc = "projects.create"
       /\ calls[c].error = TRPCError("INTERNAL_SERVER_ERROR", "send")
       /\ \E i \in RowsOfCall(c) : messages[i].role = "USER"
       /\ jobs[c].pc = "none"

----------------------------------------------------------------------------
(* The loading indicator of the chat *)

\* the conversation of the seeded project as its owner's chat displays it
Chat == GetMany("u1", SeedProject).rows

\* the runs for the seeded project that are enqueued and have not written
\* their terminal message
Processing ==
    {j \in CallIds : /\ jobs[j].pc # "none"
                      /\ EventField(jobs[j].data, "projectId") = SeedProject
                      /\ RowsOfJob(j) = {}}

\* no mutation is between its write and its send, and every prompt that was
\* persisted has its event
Settled ==
    \A c \in CallIds :
       /\ calls[c].pc \in {"idle", "finished"}
       /\ RowsOfCall(c) # {} => jobs[c].pc # "none"

\* C29 as claimed: the loading indicator is shown iff at least one run for
\* the project is enqueued and has not yet written its terminal message,
\* also when two prompts for the project are in flight.
C29_LoadingIffProcessing ==
    Settled => (LoadingShown(Chat) <=> Processing # {})

\* C29, amended: the loading indicator is shown iff no terminal message
\* was written after the newest prompt of the project.  While it is shown
\* the run of that prompt has not written its terminal message, and with
\* one prompt in the project it is shown iff that prompt's run has not
\* written; with two prompts in flight the first terminal message hides it
\* although the other run is still processing.
C29_LoadingUntilNextAnswer ==
    /\ LoadingShown(Chat) =>
          LET last == Chat[Len(Chat)] IN
          /\ last.byCall # 0
          /\ RowsOfJob(last.byCall) = {}
          /\ jobs[last.byCall].pc # "done"
    /\ Chat # <<>> /\ ~LoadingShown(Chat) =>
          /\ Chat[Len(Chat)].byJob # 0
          /\ \A k \in 1..Len(Chat) :
                Chat[k].role = "USER" => Chat[k].updatedAt < Chat[Len(Chat)].updatedAt
    /\ Settled /\ Cardinality({k \in 1..Len(Chat) : Chat[k].role = "USER"}) = 1
          => (LoadingShown(Chat) <=> Processing # {})

\* C29 witness: two prompts of the project are in flight, the run of one
\* has written its terminal message, the indicator is hidden and the run of
\* the other is still processing
C29_Witness ==
    /\ Settled
    /\ Len(Chat) = 3
    /\ Chat[1].role = "USER"
    /\ Chat[2].role = "USER"
    /\ Chat[3].role = "ASSISTANT"
    /\ ~LoadingShown(Chat)
    /\ \E j \in Processing : jobs[j].pc = "tool"

----------------------------------------------------------------------------
(* The handler's return value *)

\* C30: the value a RESULT run returns describes what it persisted: url,
\* title and files equal the sandBoxUrl, the title and the files of the
\* Fragment, and summary is the final summary of the run.
C30_ReturnMatchesFragment ==
    \A j \in CallIds :
       jobs[j].pc = "done" =>
          \A i \in RowsOfJob(j) :
             messages[i].type = "RESULT" =>
                /\ jobs[j].returned.url = messages[i].fragment[1].sandBoxUrl
                /\ jobs[j].returned.title = messages[i].fragment[1].title
                /\ jobs[j].returned.files = messages[i].fragment[1].files
                /\ jobs[j].returned.summary = jobs[j].summary

====
